---- MODULE Spec2Model ----
(***************************************************************************)
(* Issue lifecycle of the library backend: IssueService.issue_book and     *)
(* IssueService.return_book over the books and issues tables, with         *)
(* BookService.create_book as the only source of books.                    *)
(*                                                                         *)
(* Every request handler runs in its own database session (transaction),   *)
(* the AsyncSession the service signatures declare.                        *)
(* Each `await db.execute(...)` / `await db.commit()` of a handler is one  *)
(* step; steps of different handlers interleave.  Reads see the committed  *)
(* tables (READ COMMITTED); an UPDATE of a books row takes that row's lock *)
(* until the transaction commits or rolls back; the pending writes of a    *)
(* session reach the tables at commit only.                                *)
(*                                                                         *)
(* Time is an integer number of ticks, Day ticks to a day.  Requests are   *)
(* short against a tick: Spec and SpecSeq are the runs within one tick.    *)
(*                                                                         *)
(* SpecBooks adds the other writers of the books table, update_book and    *)
(* set_book_availability of BookService.  SpecQuery is the two list        *)
(* queries of IssueService on tables of every shape.  SpecSweep and        *)
(* SpecSweepSeq are the runs of SchedulerService.check_overdue_books over  *)
(* a served application, started by the manual trigger (with the request's *)
(* session) or by the interval job (with the value start_scheduler gave    *)
(* it); SpecSched is the scheduler from start_scheduler to the lifespan's  *)
(* shutdown.  datetime.now() and datetime.utcnow() read one clock (a host  *)
(* on UTC) and the timestamps read back from the tables compare with them  *)
(* (naive datetimes).                                                      *)
(*                                                                         *)
(* SpecConfig is the scheduler and its runs under settings other than the  *)
(* defaults.  SpecMixed is issue_book and return_book over two books,      *)
(* interleaved with the steps of a manual sweep run.  SpecPages is the     *)
(* paged listing get_all_issues.  SpecUpdate is update_book interleaved    *)
(* with issue_book, and SpecDelete is delete_book among issue_book and     *)
(* return_book calls executed one at a time.                               *)
(* Columns that no operation here reads (title, author, isbn, category,    *)
(* description, created_at, updated_at) are left out.                      *)
(***************************************************************************)
EXTENDS Integers, Sequences, FiniteSets, TLC

\* ------------------------------------------------------------------ bounds
MaxCopies == 1      \* largest total_copies given to create_book
MaxIssues == 2      \* issues rows created in one run
Day       == 2      \* ticks in one day (timedelta(days=1))
MaxTime   == 2      \* last tick of the clock in the sweep runs
MaxRuns   == 2      \* sweep runs started
MaxStarts == 2      \* start_scheduler calls made

DueSoonDays  == 5   \* get_books_due_soon(db, days=5), as the sweep calls it
IntervalHours == 6  \* IntervalTrigger(hours=6)
DefaultIntervalHours == 6   \* SCHEDULER_INTERVAL_HOURS when the environment has none
DefaultDueSoonDays   == 5   \* DUE_SOON_DAYS when the environment has none
CooldownDays == 1   \* timedelta(days=1) between two due-soon notices

Procs      == {"h1", "h2"}          \* concurrent request handlers
NoProc     == "none"
BookIds    == {1}                   \* books.id values that get created
ReqBookIds == BookIds \cup {2}      \* ids a request may name; 2 is never created
Students   == {1, 2}                \* students.user_id rows present
StudentIds == Students \cup {3}     \* ids a request may name; 3 has no row
None       == << >>                 \* SQL NULL / Python None; a value v is <<v>>
Runs       == {1, 2}                \* sweep runs that may be in progress together

\* total_copies: int (BookCreate has no validator, so negatives are accepted)
TotalCopiesInputs == -1 .. MaxCopies
\* days_to_return: Optional[int] = 14 (no validator: null and negatives pass)
DaysInputs == {None, <<-1>>, <<1>>}

VARIABLES
    books,      \* books table: id -> [total_copies, available_copies]
    issues,     \* issues table: sequence of rows, id = position
    now,        \* the clock
    pc,         \* per handler: the statement it is about to await
    req,        \* per handler: the request it serves
    pending,    \* per handler: uncommitted ORM state of its session
    lock,       \* per books row: the handler whose transaction updated it
    result,     \* outcome of the call that finished last (by any handler)
    sweep,      \* per sweep run slot: position and locals of check_overdue_books
    nruns,      \* sweep runs started so far (numbers the runs)
    dispatched, \* history: the send_overdue_notification calls made
    outbox,     \* history: the emails handed to send_email
    scheduler,  \* SchedulerService._scheduler: the AsyncIOScheduler and its jobs
    listed,     \* the list the last ledger query returned
    settings    \* app.config.settings: the values read from the environment

\* The state of the sweep, the scheduler and the list queries.
sweepVars == <<sweep, nruns, dispatched, outbox, scheduler, listed, settings>>

\* The state of the request handlers of issue_book and return_book.
handlerVars == <<pc, req, pending, lock, result>>

vars == <<books, issues, now, pc, req, pending, lock, result,
          sweep, nruns, dispatched, outbox, scheduler, listed, settings>>

NoReq     == [op |-> "none", book_id |-> 0, student_id |-> 0, issue_id |-> 0]
NoPending == [book_id |-> 0, student_id |-> 0, issue_id |-> 0,
              due_date |-> None, return_date |-> None]

\* HTTPException status codes by detail; 404 is NotFound, 400 is Conflict.
Kind(r) ==
    CASE r \in {"BookNotFound", "StudentNotFound", "IssueNotFound"} -> "NotFound"
      [] r \in {"NoCopies", "AlreadyIssued", "AlreadyReturned"}     -> "Conflict"
      [] OTHER                                                       -> r

\* ------------------------------------------------------------- table reads
BookExists(b) == b \in DOMAIN books

IssueIds == 1 .. Len(issues)

\* select(Issue).where(book_id == b, student_id == s, is_returned == False)
UnreturnedOf(b, s) ==
    { i \in IssueIds : /\ issues[i].book_id = b
                       /\ issues[i].student_id = s
                       /\ ~issues[i].is_returned }

InFlightIssues == { p \in Procs : req[p].op = "issue" }

\* A sweep slot with no run in it.
NoRun == [pc |-> "idle", id |-> 0, db |-> "none", overdue |-> << >>,
          due_soon |-> << >>, i |-> 0, tasks |-> << >>, failed_at |-> 0]

\* _scheduler = None: no AsyncIOScheduler made yet, no job, the app not shut down.
NoScheduler == [running |-> FALSE, jobs |-> 0, starts |-> 0, down |-> FALSE,
                interval_hours |-> 0]

\* Settings with nothing set in the environment.
DefaultSettings == [SCHEDULER_INTERVAL_HOURS |-> DefaultIntervalHours,
                    DUE_SOON_DAYS |-> DefaultDueSoonDays]

NoList == [op |-> "none", days |-> 0, rows |-> << >>]

\* The sweep, the scheduler and the queries before anything ran.
SweepIdle ==
    /\ sweep = [r \in Runs |-> NoRun]
    /\ nruns = 0
    /\ dispatched = {}
    /\ outbox = {}
    /\ scheduler = NoScheduler
    /\ listed = NoList
    /\ settings = DefaultSettings

\* ------------------------------------------------------------------- Init
Init ==
    /\ SweepIdle
    /\ books = << >>
    /\ issues = << >>
    /\ now = 0
    /\ pc = [p \in Procs |-> "idle"]
    /\ req = [p \in Procs |-> NoReq]
    /\ pending = [p \in Procs |-> NoPending]
    /\ lock = [b \in ReqBookIds |-> NoProc]
    /\ result = "none"

\* BookService.create_book: available_copies starts at total_copies.
create_book(t) ==
    /\ Cardinality(DOMAIN books) < Cardinality(BookIds)
    /\ LET id == Cardinality(DOMAIN books) + 1 IN
       books' = books @@ (id :> [total_copies |-> t, available_copies |-> t])
    /\ UNCHANGED <<issues, now, pc, req, pending, lock, result, sweepVars>>

\* A handler returns (or raises) r: its session is closed, its locks released.
Finish(p, r) ==
    /\ pc' = [pc EXCEPT ![p] = "idle"]
    /\ req' = [req EXCEPT ![p] = NoReq]
    /\ pending' = [pending EXCEPT ![p] = NoPending]
    /\ lock' = [b \in ReqBookIds |-> IF lock[b] = p THEN NoProc ELSE lock[b]]
    /\ result' = r

Goto(p, l) ==
    /\ pc' = [pc EXCEPT ![p] = l]
    /\ UNCHANGED <<req, lock, result>>

\* ------------------------------------------------------------- issue_book
\* POST /issues: a handler starts serving issue_book(book_id, student_id, days).
\* days_to_return is drawn where the code first reads it (ib_select_existing).
Call_issue_book(p, b, s) ==
    /\ pc[p] = "idle"
    /\ Len(issues) + Cardinality(InFlightIssues) < MaxIssues
    /\ pc' = [pc EXCEPT ![p] = "ib_select_book"]
    /\ req' = [req EXCEPT ![p] = [op |-> "issue", book_id |-> b, student_id |-> s,
                                  issue_id |-> 0]]
    /\ UNCHANGED <<books, issues, now, pending, lock, result, sweepVars>>

\* Mutant of NoCopies: the check written `< 0`.
NoCopies_strict(book) == book.available_copies < 0

\* `if book.available_copies <= 0`
NoCopies(book) == book.available_copies <= 0

\* Mutant of StudentMissing: the student check left out.
StudentMissing_never(s) == FALSE

\* `if not student`
StudentMissing(s) == s \notin Students

\* select(Book) and the two checks on the row read.
ib_select_book(p) ==
    /\ pc[p] = "ib_select_book"
    /\ IF ~BookExists(req[p].book_id) THEN Finish(p, "BookNotFound")
       ELSE IF NoCopies(books[req[p].book_id]) THEN Finish(p, "NoCopies")
       ELSE Goto(p, "ib_select_student") /\ UNCHANGED pending
    /\ UNCHANGED <<books, issues, now, sweepVars>>

\* select(Student) and its check.
ib_select_student(p) ==
    /\ pc[p] = "ib_select_student"
    /\ IF StudentMissing(req[p].student_id) THEN Finish(p, "StudentNotFound")
       ELSE Goto(p, "ib_select_existing") /\ UNCHANGED pending
    /\ UNCHANGED <<books, issues, now, sweepVars>>

\* The Issue object built and added to the session (not yet flushed).
NewIssue(b, s, due) ==
    [book_id |-> b, student_id |-> s, issue_id |-> 0,
     due_date |-> <<due>>, return_date |-> None]

\* select(Issue) for an unreturned issue of the pair; scalar_one_or_none raises
\* MultipleResultsFound on more than one row.  Then due_date is computed
\* (timedelta(days=None) raises TypeError) and the Issue is added to the session.
ib_select_existing(p) ==
    /\ pc[p] = "ib_select_existing"
    /\ LET rows == UnreturnedOf(req[p].book_id, req[p].student_id) IN
       IF Cardinality(rows) > 1 THEN Finish(p, "Error")
       ELSE IF rows # {} THEN Finish(p, "AlreadyIssued")
       ELSE \E d \in DaysInputs :
            IF d = None THEN Finish(p, "Error")
            ELSE /\ pending' = [pending EXCEPT ![p] =
                       NewIssue(req[p].book_id, req[p].student_id, now + d[1] * Day)]
                 /\ Goto(p, "ib_update_book")
    /\ UNCHANGED <<books, issues, now, sweepVars>>

\* Mutant of BooksAfterExecute: the UPDATE is committed as it executes
\* (an autocommit connection).
BooksAfterExecute_autocommit(b, delta) ==
    IF BookExists(b)
    THEN [books EXCEPT ![b].available_copies = @ + delta]
    ELSE books

\* The books table as other sessions see it once p has executed, inside its
\* transaction, UPDATE books SET available_copies = available_copies + delta
\* WHERE id = b: unchanged until p commits; p holds the row's lock.
BooksAfterExecute(b, delta) == books

\* Mutant of BooksAfterCommit: the copy given back on return is not counted.
BooksAfterCommit_returnLost(b, delta) ==
    IF BookExists(b) /\ delta < 0
    THEN [books EXCEPT ![b].available_copies = @ + delta]
    ELSE books

\* The books table once the transaction that ran that UPDATE has committed.
BooksAfterCommit(b, delta) ==
    IF BookExists(b)
    THEN [books EXCEPT ![b].available_copies = @ + delta]
    ELSE books

\* update(Book).values(available_copies = available_copies - 1): waits for the
\* row lock while another transaction holds it.
ib_update_book(p) ==
    /\ pc[p] = "ib_update_book"
    /\ lock[req[p].book_id] \in {NoProc, p}
    /\ books' = BooksAfterExecute(req[p].book_id, -1)
    /\ pc' = [pc EXCEPT ![p] = "ib_commit"]
    /\ lock' = [lock EXCEPT ![req[p].book_id] = p]
    /\ UNCHANGED <<issues, now, req, pending, result, sweepVars>>

\* Mutant of IssueRow: the row is inserted already returned.
IssueRow_bornReturned(pnd, t) ==
    [book_id |-> pnd.book_id, student_id |-> pnd.student_id,
     issue_date |-> t, due_date |-> pnd.due_date[1], return_date |-> <<t>>,
     is_returned |-> TRUE, overdue_notices_sent |-> 0, last_notice_sent |-> None]

\* The row INSERTed for the pending Issue: issue_date is the server default
\* now(), is_returned False, overdue_notices_sent 0, last_notice_sent NULL.
IssueRow(pnd, t) ==
    [book_id |-> pnd.book_id, student_id |-> pnd.student_id,
     issue_date |-> t, due_date |-> pnd.due_date[1], return_date |-> None,
     is_returned |-> FALSE, overdue_notices_sent |-> 0, last_notice_sent |-> None]

\* db.commit(): flushes the INSERT (foreign keys to books and students are
\* checked: IntegrityError) and commits it together with the UPDATE.  The
\* db.refresh that follows re-reads the row and writes nothing.
ib_commit(p) ==
    /\ pc[p] = "ib_commit"
    /\ IF ~BookExists(pending[p].book_id) \/ pending[p].student_id \notin Students
       THEN /\ Finish(p, "Error")
            /\ UNCHANGED <<books, issues>>
       ELSE /\ issues' = Append(issues, IssueRow(pending[p], now))
            /\ books' = BooksAfterCommit(pending[p].book_id, -1)
            /\ Finish(p, "ok")
    /\ UNCHANGED <<now, sweepVars>>

\* ------------------------------------------------------------ return_book
\* PUT /issues/{issue_id}/return: a handler starts serving return_book(issue_id).
Call_return_book(p, i) ==
    /\ pc[p] = "idle"
    /\ pc' = [pc EXCEPT ![p] = "rb_select_issue"]
    /\ req' = [req EXCEPT ![p] = [op |-> "return", book_id |-> 0, student_id |-> 0,
                                  issue_id |-> i]]
    /\ UNCHANGED <<books, issues, now, pending, lock, result, sweepVars>>

\* Mutant of AlreadyReturned: the check left out.
AlreadyReturned_never(issue) == FALSE

\* `if issue.is_returned`
AlreadyReturned(issue) == issue.is_returned

\* select(Issue) by id and the two checks; then the loaded object is marked
\* returned in the session (is_returned = True, return_date = utcnow()).
rb_select_issue(p) ==
    /\ pc[p] = "rb_select_issue"
    /\ IF req[p].issue_id \notin IssueIds THEN Finish(p, "IssueNotFound")
       ELSE IF AlreadyReturned(issues[req[p].issue_id]) THEN Finish(p, "AlreadyReturned")
       ELSE /\ pending' = [pending EXCEPT ![p] =
                  [book_id |-> issues[req[p].issue_id].book_id, student_id |-> 0,
                   issue_id |-> req[p].issue_id,
                   due_date |-> None, return_date |-> <<now>>]]
            /\ Goto(p, "rb_update_book")
    /\ UNCHANGED <<books, issues, now, sweepVars>>

\* update(Book).values(available_copies = available_copies + 1): waits for the
\* row lock while another transaction holds it.
rb_update_book(p) ==
    /\ pc[p] = "rb_update_book"
    /\ lock[pending[p].book_id] \in {NoProc, p}
    /\ books' = BooksAfterExecute(pending[p].book_id, 1)
    /\ pc' = [pc EXCEPT ![p] = "rb_commit"]
    /\ lock' = [lock EXCEPT ![pending[p].book_id] = p]
    /\ UNCHANGED <<issues, now, req, pending, result, sweepVars>>

\* Mutant of MarkReturned: the flag set without the return date.
MarkReturned_flagOnly(issue, t) == [issue EXCEPT !.is_returned = TRUE]

\* Mutant of MarkReturned: the return also clears the notice time.
MarkReturned_resetNotice(issue, t) ==
    [issue EXCEPT !.is_returned = TRUE, !.return_date = t,
                  !.last_notice_sent = None]

\* The row written by the flush of the object marked returned.
MarkReturned(issue, t) == [issue EXCEPT !.is_returned = TRUE, !.return_date = t]

\* db.commit(): flushes UPDATE issues SET is_returned, return_date WHERE id and
\* commits it together with the UPDATE of the book.
rb_commit(p) ==
    /\ pc[p] = "rb_commit"
    /\ issues' = [issues EXCEPT ![pending[p].issue_id] =
                      MarkReturned(@, pending[p].return_date)]
    /\ books' = BooksAfterCommit(pending[p].book_id, 1)
    /\ Finish(p, "ok")
    /\ UNCHANGED <<now, sweepVars>>

\* ---------------------------------------------------------------- failure
\* The statement or commit a handler awaits raises (TransientIO): the
\* exception leaves the handler, get_database rolls the session back.
Fail(p) ==
    /\ pc[p] # "idle"
    /\ Finish(p, "TransientIO")
    /\ UNCHANGED <<books, issues, now, sweepVars>>

\* ------------------------------------------------------------------- Next
Step(p) ==
    \/ \E b \in ReqBookIds, s \in StudentIds : Call_issue_book(p, b, s)
    \/ ib_select_book(p)
    \/ ib_select_student(p)
    \/ ib_select_existing(p)
    \/ ib_update_book(p)
    \/ ib_commit(p)
    \/ \E i \in 1 .. MaxIssues : Call_return_book(p, i)
    \/ rb_select_issue(p)
    \/ rb_update_book(p)
    \/ rb_commit(p)
    \/ Fail(p)

\* No other handler is serving a request.
Alone(p) == \A q \in Procs \ {p} : pc[q] = "idle"

\* Handlers interleave at every await.
Next ==
    \/ \E t \in TotalCopiesInputs : create_book(t)
    \/ \E p \in Procs : Step(p)

Spec == Init /\ [][Next]_vars

\* Calls executed one at a time: a call starts while no other is being served.
NextSeq ==
    \/ \E t \in TotalCopiesInputs : create_book(t)
    \/ \E p \in Procs :
          \/ \E b \in ReqBookIds, s \in StudentIds : Alone(p) /\ Call_issue_book(p, b, s)
          \/ ib_select_book(p)
          \/ ib_select_student(p)
          \/ ib_select_existing(p)
          \/ ib_update_book(p)
          \/ ib_commit(p)
          \/ \E i \in 1 .. MaxIssues : Alone(p) /\ Call_return_book(p, i)
          \/ rb_select_issue(p)
          \/ rb_update_book(p)
          \/ rb_commit(p)
          \/ Fail(p)

SpecSeq == Init /\ [][NextSeq]_vars

\* ------------------------------------------------------- other book writers
\* BookUpdate.total_copies: Optional[int] = None; a field not sent is not in
\* model_dump(exclude_unset=True).
UpdateTotals == {None} \cup { <<t>> : t \in -1 .. MaxCopies + 1 }

\* PUT /books/{book_id}: a handler starts serving update_book(book_id, data).
\* The total_copies of the data is drawn where the code first reads it.
Call_update_book(p, b) ==
    /\ pc[p] = "idle"
    /\ pc' = [pc EXCEPT ![p] = "ub_select_book"]
    /\ req' = [req EXCEPT ![p] = [op |-> "update", book_id |-> b, student_id |-> 0,
                                  issue_id |-> 0]]
    /\ UNCHANGED <<books, issues, now, pending, lock, result, sweepVars>>

\* The Book object of a session: the values loaded and the values set on it.
LoadedBook(b, total, available) ==
    [book_id |-> b, student_id |-> 0, issue_id |-> 0,
     due_date |-> None, return_date |-> None,
     loaded |-> books[b], total_copies |-> total, available_copies |-> available]

\* select(Book), then the attributes are set on the loaded object: with a
\* total_copies in the data, issued = old total - available, a new total
\* below issued is refused, and available_copies is set to new total - issued.
ub_select_book(p) ==
    /\ pc[p] = "ub_select_book"
    /\ IF ~BookExists(req[p].book_id) THEN Finish(p, "BookNotFound")
       ELSE \E u \in UpdateTotals :
            LET book == books[req[p].book_id]
                issued_copies == book.total_copies - book.available_copies
            IN IF u = None
               THEN /\ pending' = [pending EXCEPT ![p] =
                          LoadedBook(req[p].book_id, book.total_copies,
                                     book.available_copies)]
                    /\ Goto(p, "wb_commit")
               ELSE IF u[1] < issued_copies THEN Finish(p, "BelowIssued")
               ELSE /\ pending' = [pending EXCEPT ![p] =
                          LoadedBook(req[p].book_id, u[1], u[1] - issued_copies)]
                    /\ Goto(p, "wb_commit")
    /\ UNCHANGED <<books, issues, now, sweepVars>>

\* BookService.set_book_availability(book_id, available) is called.
Call_set_book_availability(p, b, available) ==
    /\ pc[p] = "idle"
    /\ pc' = [pc EXCEPT ![p] = "sa_select_book"]
    /\ req' = [req EXCEPT ![p] =
                  [op |-> IF available THEN "set_available" ELSE "set_unavailable",
                   book_id |-> b, student_id |-> 0, issue_id |-> 0]]
    /\ UNCHANGED <<books, issues, now, pending, lock, result, sweepVars>>

\* select(Book), then available_copies is set on the loaded object: 0 to make
\* the book unavailable, total_copies to make it available again (the
\* _original_available_copies attribute is on the object of an earlier
\* session, so a freshly loaded object never has it).
sa_select_book(p) ==
    /\ pc[p] = "sa_select_book"
    /\ IF ~BookExists(req[p].book_id) THEN Finish(p, "BookNotFound")
       ELSE LET book == books[req[p].book_id] IN
            /\ pending' = [pending EXCEPT ![p] =
                  LoadedBook(req[p].book_id, book.total_copies,
                             IF req[p].op = "set_available"
                             THEN book.total_copies ELSE 0)]
            /\ Goto(p, "wb_commit")
    /\ UNCHANGED <<books, issues, now, sweepVars>>

\* The row after the flush of a loaded Book: UPDATE books SET the attributes
\* whose value differs from the one loaded.
Flushed(row, obj) ==
    [total_copies |-> IF obj.total_copies # obj.loaded.total_copies
                      THEN obj.total_copies ELSE row.total_copies,
     available_copies |-> IF obj.available_copies # obj.loaded.available_copies
                          THEN obj.available_copies ELSE row.available_copies]

\* db.commit() of update_book and of set_book_availability: the flush waits
\* for the row lock while another transaction holds it.  The db.refresh that
\* follows writes nothing.
wb_commit(p) ==
    /\ pc[p] = "wb_commit"
    /\ lock[pending[p].book_id] \in {NoProc, p}
    /\ books' = [books EXCEPT ![pending[p].book_id] = Flushed(@, pending[p])]
    /\ Finish(p, "ok")
    /\ UNCHANGED <<issues, now, sweepVars>>

\* Calls of every writer of the books table, executed one at a time.
NextBooks ==
    \/ \E t \in TotalCopiesInputs : create_book(t)
    \/ \E p \in Procs :
          \/ \E b \in ReqBookIds, s \in StudentIds : Alone(p) /\ Call_issue_book(p, b, s)
          \/ ib_select_book(p)
          \/ ib_select_student(p)
          \/ ib_select_existing(p)
          \/ ib_update_book(p)
          \/ ib_commit(p)
          \/ \E i \in 1 .. MaxIssues : Alone(p) /\ Call_return_book(p, i)
          \/ rb_select_issue(p)
          \/ rb_update_book(p)
          \/ rb_commit(p)
          \/ \E b \in ReqBookIds : Alone(p) /\ Call_update_book(p, b)
          \/ ub_select_book(p)
          \/ \E b \in ReqBookIds, a \in BOOLEAN :
                Alone(p) /\ Call_set_book_availability(p, b, a)
          \/ sa_select_book(p)
          \/ wb_commit(p)
          \/ Fail(p)

SpecBooks == Init /\ [][NextBooks]_vars

\* issue_book served by one handler and update_book by the other, interleaved
\* at every await.
NextUpdate ==
    \/ \E t \in TotalCopiesInputs : create_book(t)
    \/ \E b \in ReqBookIds, s \in StudentIds : Call_issue_book("h1", b, s)
    \/ ib_select_book("h1")
    \/ ib_select_student("h1")
    \/ ib_select_existing("h1")
    \/ ib_update_book("h1")
    \/ ib_commit("h1")
    \/ \E b \in ReqBookIds : Call_update_book("h2", b)
    \/ ub_select_book("h2")
    \/ wb_commit("h2")
    \/ \E p \in Procs : Fail(p)

SpecUpdate == Init /\ [][NextUpdate]_vars

\* ------------------------------------------------------------ list queries
\* Mutant of Ascending: the ORDER BY left out.
Ascending_unordered(q) == TRUE

\* order_by(Issue.due_date.asc()): the rows come by due date, earliest first.
Ascending(q) ==
    \A j, k \in DOMAIN q : j < k => issues[q[j]].due_date <= issues[q[k]].due_date

\* The lists a SELECT over the rows S ... ORDER BY due_date ASC may return:
\* every row once; rows of equal due date in an order the database chooses.
OrderedByDue(S) ==
    { q \in [1 .. Cardinality(S) -> S] :
        /\ \A j, k \in DOMAIN q : j # k => q[j] # q[k]
        /\ Ascending(q) }

\* Mutant of OverdueRows: the comparison written `<=`.
OverdueRows_closed(t) ==
    { i \in IssueIds : ~issues[i].is_returned /\ issues[i].due_date <= t }

\* Mutant of OverdueRows: the is_returned filter left out.
OverdueRows_anyState(t) == { i \in IssueIds : issues[i].due_date < t }

\* where(and_(Issue.is_returned == False, Issue.due_date < current_time))
OverdueRows(t) == { i \in IssueIds : ~issues[i].is_returned /\ issues[i].due_date < t }

\* IssueService.get_overdue_books at time t.
get_overdue_books(t) == OrderedByDue(OverdueRows(t))

\* Mutant of DueSoonRows: the window closed at its start (due_date >= now).
DueSoonRows_closed(t, days) ==
    { i \in IssueIds : /\ ~issues[i].is_returned
                       /\ issues[i].due_date >= t
                       /\ issues[i].due_date <= t + days * Day }

\* where(and_(is_returned == False, due_date > current_time,
\*            due_date <= current_time + timedelta(days=days)))
DueSoonRows(t, days) ==
    { i \in IssueIds : /\ ~issues[i].is_returned
                       /\ issues[i].due_date > t
                       /\ issues[i].due_date <= t + days * Day }

\* IssueService.get_books_due_soon at time t.
get_books_due_soon(t, days) == OrderedByDue(DueSoonRows(t, days))

\* The days arguments given to get_books_due_soon (its default and the
\* sweep's argument are both 5).
DueSoonArgs == {1, DueSoonDays}

\* GET /issues/overdue (and the sweep's first query).
Call_get_overdue_books ==
    /\ \E q \in get_overdue_books(now) :
          listed' = [op |-> "overdue", days |-> 0, rows |-> q]
    /\ UNCHANGED <<books, issues, now, handlerVars, settings,
                   sweep, nruns, dispatched, outbox, scheduler>>

Call_get_books_due_soon(days) ==
    /\ \E q \in get_books_due_soon(now, days) :
          listed' = [op |-> "due_soon", days |-> days, rows |-> q]
    /\ UNCHANGED <<books, issues, now, handlerVars, settings,
                   sweep, nruns, dispatched, outbox, scheduler>>

\* Due dates of the tables the queries are run on at time 0: a day overdue,
\* a tick overdue, due this instant, due in 3 days, on the last and past the
\* last tick of the 5-day window, and due in 7 days.
QueryDues == {-Day, -1, 0, 3 * Day, DueSoonDays * Day, DueSoonDays * Day + 1, 7 * Day}

\* An issues row as issue_book and return_book leave it: issued a day before
\* it is due, returned (with its return date) or not.
LedgerRow(s, due, returned, notice) ==
    [book_id |-> 1, student_id |-> s,
     issue_date |-> due - Day, due_date |-> due,
     return_date |-> IF returned THEN <<due - 1>> ELSE None,
     is_returned |-> returned, overdue_notices_sent |-> 0,
     last_notice_sent |-> notice]

\* Tables with one row per student at most, row k issued to student k.
TablesOf(dues, flags, notices) ==
    UNION { { q \in [1 .. n -> UNION { { LedgerRow(s, d, f, l) : d \in dues, f \in flags, l \in notices } : s \in Students }] :
                \A k \in 1 .. n : q[k].student_id = k }
            : n \in 0 .. Cardinality(Students) }

\* The book the rows of a table are issues of: one copy per row, those of
\* the unreturned rows out.
BookOf(tbl) ==
    1 :> [total_copies |-> Len(tbl),
          available_copies |-> Cardinality({ k \in DOMAIN tbl : tbl[k].is_returned })]

InitQuery ==
    /\ issues \in TablesOf(QueryDues, BOOLEAN, {None})
    /\ books = BookOf(issues)
    /\ now = 0
    /\ pc = [p \in Procs |-> "idle"]
    /\ req = [p \in Procs |-> NoReq]
    /\ pending = [p \in Procs |-> NoPending]
    /\ lock = [b \in ReqBookIds |-> NoProc]
    /\ result = "none"
    /\ SweepIdle

NextQuery ==
    \/ Call_get_overdue_books
    \/ \E days \in DueSoonArgs : Call_get_books_due_soon(days)

SpecQuery == InitQuery /\ [][NextQuery]_vars

\* -------------------------------------------------------------- scheduler
\* Mutant of SchedulerRunning: start_scheduler without its guard.
SchedulerRunning_unchecked(sch) == FALSE

\* `scheduler.running`
SchedulerRunning(sch) == sch.running

\* SchedulerService.start_scheduler, as the lifespan calls it at startup:
\* only a scheduler that is not running is started and given the job.
start_scheduler ==
    /\ ~scheduler.down
    /\ scheduler.starts < MaxStarts
    /\ scheduler' =
          IF ~SchedulerRunning(scheduler)
          THEN [scheduler EXCEPT !.running = TRUE, !.jobs = @ + 1, !.starts = @ + 1,
                                 !.interval_hours = IntervalHours]
          ELSE [scheduler EXCEPT !.starts = @ + 1]
    /\ UNCHANGED <<books, issues, now, handlerVars, settings,
                   sweep, nruns, dispatched, outbox, listed>>

\* A run of check_overdue_books is in progress in slot r.
Active(r) == sweep[r].pc \notin {"idle", "done", "failed"}

\* The lifespan's exit at application shutdown: the running scheduler is shut
\* down.  The process ends after it; no run is in progress any more.
shutdown ==
    /\ scheduler.running
    /\ \A r \in Runs : ~Active(r)
    /\ scheduler' = [scheduler EXCEPT !.running = FALSE, !.down = TRUE]
    /\ UNCHANGED <<books, issues, now, handlerVars, settings,
                   sweep, nruns, dispatched, outbox, listed>>

\* ------------------------------------------------------------------ sweep
\* The slot a starting run takes: the first one free.
FreeSlot == CHOOSE r \in Runs : ~Active(r) /\ \A q \in Runs : ~Active(q) => ~(q < r)

\* A run of check_overdue_books(db) starts in slot r.
StartRun(r, db) ==
    /\ ~Active(r)
    /\ r = FreeSlot
    /\ nruns < MaxRuns
    /\ nruns' = nruns + 1
    /\ sweep' = [sweep EXCEPT ![r] =
                    [NoRun EXCEPT !.pc = "get_overdue", !.id = nruns + 1, !.db = db]]
    /\ UNCHANGED <<books, issues, now, handlerVars, settings,
                   dispatched, outbox, scheduler, listed>>

\* POST /issues/trigger-overdue-check: the run is queued as a background task
\* with the request's session.  Requests are served between the lifespan's
\* startup and its exit.
trigger_overdue_check(r) ==
    /\ scheduler.running
    /\ StartRun(r, "session")

\* The interval job fires.  Its argument is the value of get_database(), the
\* context manager itself, not a session.  One instance of a job runs at a
\* time (the scheduler's default max_instances).
job_fires(r) ==
    /\ scheduler.running
    /\ scheduler.jobs > 0
    /\ \A q \in Runs : ~(Active(q) /\ sweep[q].db = "cm")
    /\ StartRun(r, "cm")

\* Mutant of Caught: the exception leaves check_overdue_books.
Caught_reraised(run, at) == [run EXCEPT !.pc = "raised", !.failed_at = at]

\* The exception raised inside the run is caught by `except Exception` and
\* logged; the run ends there, its queued emails are never handed over.
Caught(run, at) == [run EXCEPT !.pc = "failed", !.failed_at = at]

\* overdue_issues = await IssueService.get_overdue_books(db).  The context
\* manager has no execute(): AttributeError.
sw_get_overdue(r) ==
    /\ sweep[r].pc = "get_overdue"
    /\ IF sweep[r].db = "cm"
       THEN sweep' = [sweep EXCEPT ![r] = Caught(@, 0)]
       ELSE \E q \in get_overdue_books(now) :
               sweep' = [sweep EXCEPT ![r].overdue = q, ![r].pc = "get_due_soon"]
    /\ UNCHANGED <<books, issues, now, handlerVars, settings,
                   nruns, dispatched, outbox, scheduler, listed>>

\* Where the run stands once the loop it is in has no issue left.
Advance(run) ==
    IF run.pc = "overdue_loop" /\ run.i > Len(run.overdue)
    THEN IF run.due_soon = << >>
         THEN [run EXCEPT !.pc = "run_tasks", !.i = 0]
         ELSE [run EXCEPT !.pc = "due_soon_loop", !.i = 1]
    ELSE IF run.pc = "due_soon_loop" /\ run.i > Len(run.due_soon)
         THEN [run EXCEPT !.pc = "run_tasks", !.i = 0]
         ELSE run

\* due_soon = await IssueService.get_books_due_soon(db, days=5): the Issue
\* objects loaded keep the last_notice_sent read here.
sw_get_due_soon(r) ==
    /\ sweep[r].pc = "get_due_soon"
    /\ \E q \in get_books_due_soon(now, DueSoonDays) :
          sweep' = [sweep EXCEPT ![r] =
              Advance([@ EXCEPT
                  !.due_soon = [k \in DOMAIN q |->
                                   [id |-> q[k],
                                    last_notice_sent |-> issues[q[k]].last_notice_sent]],
                  !.pc = "overdue_loop", !.i = 1])]
    /\ UNCHANGED <<books, issues, now, handlerVars, settings,
                   nruns, dispatched, outbox, scheduler, listed>>

\* a \div b with Python's rounding of timedelta.days (towards minus infinity).
FloorDiv(a, b) == IF a >= 0 THEN a \div b ELSE -((b - 1 - a) \div b)

\* Mutant of send_overdue_notification: the overdue text for every
\* days_overdue >= 0.
send_overdue_notification_nonneg(id, days_overdue, t) ==
    IF days_overdue >= 0
    THEN [issue |-> id, body |-> "overdue", days |-> days_overdue]
    ELSE [issue |-> id, body |-> "reminder",
          days |-> FloorDiv(issues[id].due_date - t, Day)]

\* NotificationService.send_overdue_notification: the email it queues.  The
\* "is now N days overdue" text is written for days_overdue > 0 only; any
\* other call gets the "is due in N days" reminder.
send_overdue_notification(id, days_overdue, t) ==
    IF days_overdue > 0
    THEN [issue |-> id, body |-> "overdue", days |-> days_overdue]
    ELSE [issue |-> id, body |-> "reminder",
          days |-> FloorDiv(issues[id].due_date - t, Day)]

\* One call of send_overdue_notification by run `run` from loop `list`.
Dispatch(run, list, notice) ==
    [run |-> run.id, list |-> list, at |-> now,
     issue |-> notice.issue, body |-> notice.body, days |-> notice.days]

\* The notice of the overdue loop for issue id:
\* days_overdue = (datetime.now() - issue.due_date).days
OverdueNotice(id) ==
    send_overdue_notification(id, FloorDiv(now - issues[id].due_date, Day), now)

\* `for issue in overdue_issues`: the loop awaits nothing that suspends, so it
\* runs as one step.  It gets through its first n issues; with issues left,
\* the building of the next notification raised.
sw_overdue(r) ==
    /\ sweep[r].pc = "overdue_loop"
    /\ \E n \in 0 .. Len(sweep[r].overdue) :
          LET notices == [k \in 1 .. n |-> OverdueNotice(sweep[r].overdue[k])]
              run == [sweep[r] EXCEPT !.tasks = notices, !.i = n + 1]
          IN /\ sweep' = [sweep EXCEPT ![r] =
                    IF n < Len(run.overdue)
                    THEN Caught(run, run.overdue[n + 1])
                    ELSE Advance(run)]
             /\ dispatched' = dispatched \cup
                    { Dispatch(sweep[r], "overdue", notices[k]) : k \in 1 .. n }
    /\ UNCHANGED <<books, issues, now, handlerVars, settings,
                   nruns, outbox, scheduler, listed>>

\* Mutant of NoticeDue: the cooldown left out.
NoticeDue_always(last, t) == TRUE

\* `not issue.last_notice_sent or (now - issue.last_notice_sent) > timedelta(days=1)`
NoticeDue(last, t) == last = None \/ t - last[1] > CooldownDays * Day

\* Mutant of RecordNotice: the notice is also counted on the row.
RecordNotice_counted(row, t) ==
    [row EXCEPT !.last_notice_sent = <<t>>,
                !.overdue_notices_sent = @ + 1]

\* `issue.last_notice_sent = datetime.now()` and the row written by db.commit():
\* the flush updates the one attribute set on the loaded object.
RecordNotice(row, t) == [row EXCEPT !.last_notice_sent = <<t>>]

\* One iteration of `for issue in due_soon`: the notice is queued, the loaded
\* object's last_notice_sent is set and db.commit() writes it to the row.
sw_due_soon(r) ==
    /\ sweep[r].pc = "due_soon_loop"
    /\ LET e == sweep[r].due_soon[sweep[r].i]
           notice == send_overdue_notification(e.id, 0, now)
       IN IF NoticeDue(e.last_notice_sent, now)
          THEN /\ sweep' = [sweep EXCEPT ![r] =
                      Advance([@ EXCEPT !.tasks = Append(@, notice), !.i = @ + 1])]
               /\ dispatched' = dispatched \cup {Dispatch(sweep[r], "due_soon", notice)}
               /\ issues' = [issues EXCEPT ![e.id] = RecordNotice(@, now)]
          ELSE /\ sweep' = [sweep EXCEPT ![r] = Advance([@ EXCEPT !.i = @ + 1])]
               /\ UNCHANGED <<dispatched, issues>>
    /\ UNCHANGED <<books, now, handlerVars, settings, nruns, outbox, scheduler, listed>>

\* await background_tasks(): the queued send_email calls run, each catching
\* its own exceptions.
sw_run_tasks(r) ==
    /\ sweep[r].pc = "run_tasks"
    /\ outbox' = outbox \cup
          { [run |-> sweep[r].id, issue |-> sweep[r].tasks[k].issue,
             body |-> sweep[r].tasks[k].body] : k \in DOMAIN sweep[r].tasks }
    /\ sweep' = [sweep EXCEPT ![r].pc = "done"]
    /\ UNCHANGED <<books, issues, now, handlerVars, settings,
                   nruns, dispatched, scheduler, listed>>

\* The issue the run is at in its due-soon loop, 0 before the loops.
CurrentIssue(run) ==
    IF run.pc = "due_soon_loop" THEN run.due_soon[run.i].id ELSE 0

\* A query, the building of a due-soon notification or the commit raises: the
\* whole body of the run is inside one try, so the run ends at the except
\* clause.
sw_fail(r) ==
    /\ sweep[r].pc \in {"get_overdue", "get_due_soon", "due_soon_loop"}
    /\ sweep[r].db = "session"
    /\ sweep' = [sweep EXCEPT ![r] = Caught(@, CurrentIssue(@))]
    /\ UNCHANGED <<books, issues, now, handlerVars, settings,
                   nruns, dispatched, outbox, scheduler, listed>>

\* Time passes between runs (a run is short against a tick).
Tick ==
    /\ now < MaxTime
    /\ \A r \in Runs : ~Active(r)
    /\ now' = now + 1
    /\ UNCHANGED <<books, issues, handlerVars, sweepVars>>

\* Due dates and last notices of the tables the sweep starts from at time 0:
\* a day overdue, a tick overdue, due soon at every tick of the clock; never
\* notified, notified a tick ago, notified more than a day ago.
SweepDues    == {-Day, -1, MaxTime + 1}
SweepNotices == {None, <<-1>>, <<-(CooldownDays * Day) - 1>>}

\* The scheduler once the lifespan's startup has called start_scheduler.
Started == [running |-> TRUE, jobs |-> 1, starts |-> 1, down |-> FALSE,
            interval_hours |-> IntervalHours]

\* The application serving requests: the lifespan's startup is done.
InitSweep ==
    /\ issues \in TablesOf(SweepDues, {FALSE}, SweepNotices)
    /\ books = BookOf(issues)
    /\ now = 0
    /\ pc = [p \in Procs |-> "idle"]
    /\ req = [p \in Procs |-> NoReq]
    /\ pending = [p \in Procs |-> NoPending]
    /\ lock = [b \in ReqBookIds |-> NoProc]
    /\ result = "none"
    /\ sweep = [r \in Runs |-> NoRun]
    /\ nruns = 0
    /\ dispatched = {}
    /\ outbox = {}
    /\ scheduler = Started
    /\ listed = NoList
    /\ settings = DefaultSettings

\* Runs overlap: a manual trigger may come while another run is in progress.
NextSweep ==
    \/ Tick
    \/ \E r \in Runs :
          \/ trigger_overdue_check(r)
          \/ job_fires(r)
          \/ sw_get_overdue(r)
          \/ sw_get_due_soon(r)
          \/ sw_overdue(r)
          \/ sw_due_soon(r)
          \/ sw_run_tasks(r)
          \/ sw_fail(r)

SpecSweep == InitSweep /\ [][NextSweep]_vars

\* No run is in progress.
NoneActive == \A q \in Runs : ~Active(q)

\* Runs one at a time: a run starts when no other is in progress.
NextSweepSeq ==
    \/ Tick
    \/ \E r \in Runs :
          \/ NoneActive /\ trigger_overdue_check(r)
          \/ NoneActive /\ job_fires(r)
          \/ sw_get_overdue(r)
          \/ sw_get_due_soon(r)
          \/ sw_overdue(r)
          \/ sw_due_soon(r)
          \/ sw_run_tasks(r)
          \/ sw_fail(r)

SpecSweepSeq == InitSweep /\ [][NextSweepSeq]_vars

\* The application from before its lifespan's startup to its shutdown, with
\* the scheduled runs only.
InitSched ==
    /\ issues \in TablesOf(SweepDues, {FALSE}, {None})
    /\ books = BookOf(issues)
    /\ now = 0
    /\ pc = [p \in Procs |-> "idle"]
    /\ req = [p \in Procs |-> NoReq]
    /\ pending = [p \in Procs |-> NoPending]
    /\ lock = [b \in ReqBookIds |-> NoProc]
    /\ result = "none"
    /\ SweepIdle

NextSched ==
    \/ Tick
    \/ start_scheduler
    \/ shutdown
    \/ \E r \in Runs : job_fires(r) \/ sw_get_overdue(r)

SpecSched == InitSched /\ [][NextSched]_vars

\* The values the environment may give the two scheduler settings.
SettingsChoices ==
    { [SCHEDULER_INTERVAL_HOURS |-> h, DUE_SOON_DAYS |-> d] :
         h \in {DefaultIntervalHours, 12}, d \in {DefaultDueSoonDays, 1} }

\* The application started under any of the settings, and its sweep runs one
\* at a time.
InitConfig ==
    /\ issues \in TablesOf(SweepDues, {FALSE}, {None})
    /\ books = BookOf(issues)
    /\ now = 0
    /\ pc = [p \in Procs |-> "idle"]
    /\ req = [p \in Procs |-> NoReq]
    /\ pending = [p \in Procs |-> NoPending]
    /\ lock = [b \in ReqBookIds |-> NoProc]
    /\ result = "none"
    /\ sweep = [r \in Runs |-> NoRun]
    /\ nruns = 0
    /\ dispatched = {}
    /\ outbox = {}
    /\ scheduler = NoScheduler
    /\ listed = NoList
    /\ settings \in SettingsChoices

NextConfig ==
    \/ start_scheduler
    \/ \E r \in Runs :
          \/ NoneActive /\ trigger_overdue_check(r)
          \/ NoneActive /\ job_fires(r)
          \/ sw_get_overdue(r)
          \/ sw_get_due_soon(r)
          \/ sw_overdue(r)
          \/ sw_due_soon(r)
          \/ sw_run_tasks(r)
          \/ sw_fail(r)

SpecConfig == InitConfig /\ [][NextConfig]_vars

\* -------------------------------------------------------- delete_book
\* DELETE /books/{book_id}: a handler starts serving delete_book(book_id).
Call_delete_book(p, b) ==
    /\ pc[p] = "idle"
    /\ pc' = [pc EXCEPT ![p] = "db_select_book"]
    /\ req' = [req EXCEPT ![p] = [op |-> "delete", book_id |-> b, student_id |-> 0,
                                  issue_id |-> 0]]
    /\ UNCHANGED <<books, issues, now, pending, lock, result, sweepVars>>

\* Mutant of HasActiveIssues: the check left out.
HasActiveIssues_never(book) == FALSE

\* `if db_book.available_copies < db_book.total_copies`
HasActiveIssues(book) == book.available_copies < book.total_copies

\* select(Book): False (404 in the controller) for a missing book, 400 for a
\* book with copies out, else the object is marked for deletion.
db_select_book(p) ==
    /\ pc[p] = "db_select_book"
    /\ IF ~BookExists(req[p].book_id) THEN Finish(p, "BookNotFound")
       ELSE IF HasActiveIssues(books[req[p].book_id]) THEN Finish(p, "ActiveIssues")
       ELSE /\ pending' = [pending EXCEPT ![p] =
                  [NoPending EXCEPT !.book_id = req[p].book_id]]
            /\ Goto(p, "db_commit")
    /\ UNCHANGED <<books, issues, now, sweepVars>>

\* The issues rows of book b, returned or not.
IssuesOfBook(b) == { i \in IssueIds : issues[i].book_id = b }

\* db.commit(): Book.issues has no delete cascade, so the flush first sets
\* book_id of the book's issues to NULL, which the NOT NULL column refuses
\* (IntegrityError, 500 in the controller); with no issues row the DELETE
\* removes the book.
db_commit(p) ==
    /\ pc[p] = "db_commit"
    /\ lock[pending[p].book_id] \in {NoProc, p}
    /\ IF IssuesOfBook(pending[p].book_id) # {}
       THEN /\ Finish(p, "Error")
            /\ UNCHANGED books
       ELSE /\ books' = [b \in DOMAIN books \ {pending[p].book_id} |-> books[b]]
            /\ Finish(p, "ok")
    /\ UNCHANGED <<issues, now, sweepVars>>

\* One book of t copies, none out, for t up to the bound.
InitDelete ==
    /\ books \in { 1 :> [total_copies |-> t, available_copies |-> t] : t \in 0 .. MaxCopies }
    /\ issues = << >>
    /\ now = 0
    /\ pc = [p \in Procs |-> "idle"]
    /\ req = [p \in Procs |-> NoReq]
    /\ pending = [p \in Procs |-> NoPending]
    /\ lock = [b \in ReqBookIds |-> NoProc]
    /\ result = "none"
    /\ SweepIdle

\* issue_book, return_book and delete_book calls, executed one at a time.
NextDelete ==
    \E p \in Procs :
       \/ \E b \in ReqBookIds, s \in StudentIds : Alone(p) /\ Call_issue_book(p, b, s)
       \/ ib_select_book(p)
       \/ ib_select_student(p)
       \/ ib_select_existing(p)
       \/ ib_update_book(p)
       \/ ib_commit(p)
       \/ \E i \in 1 .. MaxIssues : Alone(p) /\ Call_return_book(p, i)
       \/ rb_select_issue(p)
       \/ rb_update_book(p)
       \/ rb_commit(p)
       \/ \E b \in ReqBookIds : Alone(p) /\ Call_delete_book(p, b)
       \/ db_select_book(p)
       \/ db_commit(p)
       \/ Fail(p)

SpecDelete == InitDelete /\ [][NextDelete]_vars

\* ------------------------------------------------------- paged listing
\* is_returned arguments: absent, true, false.
ReturnedFilters == {None, <<TRUE>>, <<FALSE>>}

\* page and limit arguments (Query(ge=1) on both).
Pages  == 1 .. 3
Limits == {1, 2}

\* `if is_returned is not None: where(Issue.is_returned == is_returned)`,
\* applied to the select and to the count alike.
Matching(f) ==
    { i \in IssueIds : f = None \/ issues[i].is_returned = f[1] }

\* order_by(Issue.issue_date.desc()): latest issue first.
Descending(q) ==
    \A j, k \in DOMAIN q : j < k => issues[q[j]].issue_date >= issues[q[k]].issue_date

\* The lists SELECT ... ORDER BY issue_date DESC may return over the rows S:
\* every row once; rows of equal issue date in an order the database chooses.
OrderedByIssueDate(S) ==
    { q \in [1 .. Cardinality(S) -> S] :
        /\ \A j, k \in DOMAIN q : j # k => q[j] # q[k]
        /\ Descending(q) }

\* Mutant of Offset: the page number not reduced by one.
Offset_fromPage(page, limit) == page * limit

\* `offset = (page - 1) * limit`
Offset(page, limit) == (page - 1) * limit

\* OFFSET offset LIMIT limit over an ordered list.
Paged(q, offset, limit) ==
    [k \in 1 .. (IF Len(q) - offset < 0 THEN 0
                 ELSE IF Len(q) - offset < limit THEN Len(q) - offset ELSE limit)
        |-> q[offset + k]]

\* IssueService.get_all_issues: the count, then the page of the ordered rows.
Call_get_all_issues(f, page, limit) ==
    /\ \E q \in OrderedByIssueDate(Matching(f)) :
          listed' = [op |-> "all", days |-> 0,
                     rows |-> Paged(q, Offset(page, limit), limit),
                     total |-> Cardinality(Matching(f)),
                     is_returned |-> f, page |-> page, limit |-> limit]
    /\ UNCHANGED <<books, issues, now, handlerVars, settings,
                   sweep, nruns, dispatched, outbox, scheduler>>

\* Due dates of the listed tables; a row is issued a day before it is due, so
\* equal due dates are equal issue dates.
PageDues == {-Day, 0, Day}

\* Tables of up to three rows: one per student, and an earlier issue to
\* student 1 that was returned.
PageTables ==
    LET T == TablesOf(PageDues, BOOLEAN, {None}) IN
    T \cup { <<LedgerRow(1, d, TRUE, None)>> \o t : t \in T, d \in PageDues }

InitPages ==
    /\ issues \in PageTables
    /\ books = BookOf(issues)
    /\ now = 0
    /\ pc = [p \in Procs |-> "idle"]
    /\ req = [p \in Procs |-> NoReq]
    /\ pending = [p \in Procs |-> NoPending]
    /\ lock = [b \in ReqBookIds |-> NoProc]
    /\ result = "none"
    /\ SweepIdle

NextPages ==
    \E f \in ReturnedFilters, page \in Pages, limit \in Limits :
       Call_get_all_issues(f, page, limit)

SpecPages == InitPages /\ [][NextPages]_vars

\* ------------------------------------------- ledger calls and sweep runs
\* Due dates of the rows the combined specification starts from: overdue, due
\* at the time of the queries, due soon.
MixedDues == {-Day, 0, Day}

\* Two books: book 1 with the rows of the table out, book 2 on the shelf.
InitMixed ==
    /\ issues \in TablesOf(MixedDues, {FALSE}, {None})
    /\ books = BookOf(issues) @@ (2 :> [total_copies |-> 1, available_copies |-> 1])
    /\ now = 0
    /\ pc = [p \in Procs |-> "idle"]
    /\ req = [p \in Procs |-> NoReq]
    /\ pending = [p \in Procs |-> NoPending]
    /\ lock = [b \in ReqBookIds |-> NoProc]
    /\ result = "none"
    /\ sweep = [r \in Runs |-> NoRun]
    /\ nruns = 0
    /\ dispatched = {}
    /\ outbox = {}
    /\ scheduler = Started
    /\ listed = NoList
    /\ settings = DefaultSettings

\* Calls are served one at a time here, so one handler serves them all.
MixedProcs == {"h1"}

\* issue_book and return_book calls, one at a time, interleave at every await
\* with the steps of one manual sweep run.
NextMixed ==
    \/ \E p \in MixedProcs :
          \/ \E b \in ReqBookIds, s \in StudentIds : Alone(p) /\ Call_issue_book(p, b, s)
          \/ ib_select_book(p)
          \/ ib_select_student(p)
          \/ ib_select_existing(p)
          \/ ib_update_book(p)
          \/ ib_commit(p)
          \/ \E i \in 1 .. MaxIssues : Alone(p) /\ Call_return_book(p, i)
          \/ rb_select_issue(p)
          \/ rb_update_book(p)
          \/ rb_commit(p)
          \/ Fail(p)
    \/ \E r \in Runs :
          \/ nruns = 0 /\ trigger_overdue_check(r)
          \/ sw_get_overdue(r)
          \/ sw_get_due_soon(r)
          \/ sw_overdue(r)
          \/ sw_due_soon(r)
          \/ sw_run_tasks(r)
          \/ sw_fail(r)

SpecMixed == InitMixed /\ [][NextMixed]_vars

\* ================================================================ claims
\* Handler p returns or raises in this step.
Finishes(p) == pc[p] # "idle" /\ pc'[p] = "idle"

\* The unreturned issues of one book.
Unreturned(b) == { i \in IssueIds : issues[i].book_id = b /\ ~issues[i].is_returned }

Avail(b) == books[b].available_copies
Total(b) == books[b].total_copies

\* C1 (SpecSeq): for every book, available_copies = total_copies - (number of
\* unreturned issues of the book) and 0 <= available_copies <= total_copies,
\* in every state reached by calls executed one at a time.
C1_CopiesInvariant ==
    \A b \in DOMAIN books :
        /\ Avail(b) = Total(b) - Cardinality(Unreturned(b))
        /\ 0 <= Avail(b)
        /\ Avail(b) <= Total(b)

\* Supplement to C1 (SpecSeq): the same statement for the books created with a
\* non-negative total_copies.
C1_ForNonNegativeTotal ==
    \A b \in DOMAIN books :
        Total(b) >= 0 =>
            /\ Avail(b) = Total(b) - Cardinality(Unreturned(b))
            /\ 0 <= Avail(b)
            /\ Avail(b) <= Total(b)

\* C2 (Spec): interleaved issue_book calls for different students never take
\* more copies than the book has: while every student holds at most one
\* unreturned issue of a book, its available_copies is not negative and no
\* more issues are out than total_copies.
C2_NoOversell ==
    \A b \in DOMAIN books :
        (Total(b) >= 0 /\ \A s \in StudentIds : Cardinality(UnreturnedOf(b, s)) <= 1)
            => /\ Avail(b) >= 0
               /\ Cardinality(Unreturned(b)) <= Total(b)

\* C3 (Spec): for every (book, student) pair at most one issue with
\* is_returned = false exists, in every state, interleaved calls included.
C3_OneUnreturnedPerPair ==
    \A b \in ReqBookIds, s \in StudentIds : Cardinality(UnreturnedOf(b, s)) <= 1

\* C4 (Spec): interleaved return_book calls for one issue increment the book's
\* available_copies once: it never exceeds total_copies.
C4_ReturnedOnce ==
    \A b \in DOMAIN books : Avail(b) <= Total(b)

\* C5 (Spec): issue_book and return_book are atomic across issues and books.
\* A step in which a call fails leaves both tables as they were; a step that
\* changes the issues table changes a book's available_copies; a step that
\* changes a book row is the successful end of a call, and leaves the issue
\* side written as well (the row created, or the row marked returned).
C5_Atomic ==
    [][ /\ \A p \in Procs :
              (Finishes(p) /\ result' # "ok") => (books' = books /\ issues' = issues)
        /\ issues' # issues =>
              \E b \in DOMAIN books : books'[b].available_copies # Avail(b)
        /\ (\E b \in DOMAIN books : books'[b] # books[b]) =>
              \E p \in Procs :
                  /\ Finishes(p) /\ result' = "ok"
                  /\ IF req[p].op = "issue"
                     THEN /\ Len(issues') = Len(issues) + 1
                          /\ issues'[Len(issues')].book_id = req[p].book_id
                          /\ ~issues'[Len(issues')].is_returned
                          /\ books'[req[p].book_id].available_copies
                                 = Avail(req[p].book_id) - 1
                     ELSE /\ issues'[req[p].issue_id].is_returned
                          /\ LET b == issues[req[p].issue_id].book_id IN
                             books'[b].available_copies = Avail(b) + 1
      ]_vars

\* C5 witness: a handler has executed its UPDATE of the book inside its
\* transaction and has not committed yet (a failure now must undo it).
C5_Witness ==
    \E p \in Procs : /\ pc[p] \in {"ib_commit", "rb_commit"}
                     /\ lock[pending[p].book_id] = p

\* C6 (SpecSeq): an issue_book call on a book whose available_copies is 0 or
\* less ends in Conflict (unless the database call itself fails), creates no
\* issue and leaves the books table unchanged.
C6_NoCopiesConflict ==
    [][ \A p \in Procs :
           ( /\ Finishes(p) /\ req[p].op = "issue"
             /\ BookExists(req[p].book_id)
             /\ Avail(req[p].book_id) <= 0 )
           => /\ Kind(result') \in {"Conflict", "TransientIO"}
              /\ issues' = issues
              /\ books' = books
      ]_vars

\* C6 witness: a call has just been refused for lack of copies.
C6_Witness ==
    /\ result = "NoCopies"
    /\ \E b \in DOMAIN books : Avail(b) <= 0

\* C7 (SpecSeq): a return_book call on an issue that is already returned ends
\* in Conflict (unless the database call itself fails) and leaves the issue's
\* return_date and is_returned and the books table unchanged.
C7_AlreadyReturnedConflict ==
    [][ \A p \in Procs :
           ( /\ Finishes(p) /\ req[p].op = "return"
             /\ req[p].issue_id \in IssueIds
             /\ issues[req[p].issue_id].is_returned )
           => /\ Kind(result') \in {"Conflict", "TransientIO"}
              /\ issues' = issues
              /\ books' = books
      ]_vars

\* C7 witness: a return of a returned issue has just been refused.
C7_Witness ==
    /\ result = "AlreadyReturned"
    /\ \E i \in IssueIds : issues[i].is_returned

\* C8 as stated (SpecSeq): an issue_book call ends in NotFound whenever the
\* book or the student does not exist, whatever the book's copies, and creates
\* no issue.
C8_NotFoundAlways ==
    [][ \A p \in Procs :
           ( /\ Finishes(p) /\ req[p].op = "issue" /\ result' # "TransientIO"
             /\ (~BookExists(req[p].book_id) \/ req[p].student_id \notin Students) )
           => /\ Kind(result') = "NotFound"
              /\ issues' = issues
      ]_vars

\* C8 amended (SpecSeq): an issue_book call ends in NotFound when the book does
\* not exist, and when the book has available_copies > 0 and the student does
\* not exist; for a missing student and a book with available_copies <= 0 it
\* ends in Conflict.  No issue is created in any of these cases.
C8_NotFoundUnlessNoCopies ==
    [][ \A p \in Procs :
           ( /\ Finishes(p) /\ req[p].op = "issue" /\ result' # "TransientIO"
             /\ (~BookExists(req[p].book_id) \/ req[p].student_id \notin Students) )
           => /\ issues' = issues
              /\ IF ~BookExists(req[p].book_id) THEN result' = "BookNotFound"
                 ELSE IF Avail(req[p].book_id) > 0 THEN result' = "StudentNotFound"
                 ELSE result' = "NoCopies"
              /\ Kind(result') = IF BookExists(req[p].book_id)
                                    /\ Avail(req[p].book_id) <= 0
                                 THEN "Conflict" ELSE "NotFound"
      ]_vars

\* C8 witness: a call naming a missing student was refused with NotFound while
\* the book had copies.
C8_Witness ==
    /\ result = "StudentNotFound"
    /\ \E b \in DOMAIN books : Avail(b) > 0

\* C9 (Spec): for every issue, is_returned is true exactly when return_date
\* is set.
C9_ReturnedIffDate ==
    \A i \in IssueIds : issues[i].is_returned <=> (issues[i].return_date # None)

\* C9 witness: an issue has been returned.
C9_Witness ==
    \E i \in IssueIds : issues[i].is_returned /\ issues[i].return_date # None

\* C10 (Spec): every issue has due_date strictly later than its issue_date.
C10_DueAfterIssue ==
    \A i \in IssueIds : issues[i].due_date > issues[i].issue_date

\* C11 (Spec): the issue lifecycle is one-way and append-only.  In every step
\* the issues table keeps every row it had, under the same id and for the same
\* book, student and due date; a row that was returned stays returned; and
\* every row that appears is new at the end of the table and unreturned.
C11_OneWayAppendOnly ==
    [][ /\ Len(issues') >= Len(issues)
        /\ \A i \in IssueIds :
              /\ issues'[i].book_id = issues[i].book_id
              /\ issues'[i].student_id = issues[i].student_id
              /\ issues'[i].issue_date = issues[i].issue_date
              /\ issues'[i].due_date = issues[i].due_date
              /\ issues[i].is_returned => issues'[i].is_returned
        /\ \A i \in (1 .. Len(issues')) \ IssueIds : ~issues'[i].is_returned ]_vars

\* C11 case: a returned issue next to an issue created after it.
C11_Witness ==
    /\ Len(issues) = 2
    /\ issues[1].is_returned
    /\ ~issues[2].is_returned
    /\ \E p \in Procs : pc[p] = "rb_select_issue" /\ req[p].issue_id = 1

\* The rows of a list as a set.
Rows(q) == { q[k] : k \in DOMAIN q }

\* C19 (SpecQuery): get_overdue_books returns exactly the issues that are
\* unreturned and due before now, each once, in ascending order of due date.
C19_OverdueList ==
    listed.op = "overdue" =>
        /\ Rows(listed.rows) = { i \in IssueIds : ~issues[i].is_returned /\ issues[i].due_date < now }
        /\ Len(listed.rows) = Cardinality(Rows(listed.rows))
        /\ \A j, k \in DOMAIN listed.rows :
              j < k => issues[listed.rows[j]].due_date <= issues[listed.rows[k]].due_date

\* C19 case: a returned issue with a past due date is left out of a list that
\* holds an unreturned one.
C19_Witness ==
    /\ listed.op = "overdue"
    /\ listed.rows # << >>
    /\ \E i \in IssueIds : /\ issues[i].is_returned
                           /\ issues[i].due_date < now
                           /\ i \notin Rows(listed.rows)

\* C20 (SpecQuery): get_books_due_soon(days) returns exactly the issues that
\* are unreturned with now < due_date <= now + days, each once, in ascending
\* order of due date; with days = 5 an issue due in 3 days is listed and one
\* due in 7 days or overdue is not.
C20_DueSoonList ==
    listed.op = "due_soon" =>
        /\ Rows(listed.rows) = { i \in IssueIds : /\ ~issues[i].is_returned
                                                  /\ now < issues[i].due_date
                                                  /\ issues[i].due_date <= now + listed.days * Day }
        /\ Len(listed.rows) = Cardinality(Rows(listed.rows))
        /\ \A j, k \in DOMAIN listed.rows :
              j < k => issues[listed.rows[j]].due_date <= issues[listed.rows[k]].due_date
        /\ listed.days = 5 =>
              \A i \in IssueIds :
                 /\ (~issues[i].is_returned /\ issues[i].due_date = now + 3 * Day)
                       => i \in Rows(listed.rows)
                 /\ (issues[i].due_date = now + 7 * Day \/ issues[i].due_date < now)
                       => i \notin Rows(listed.rows)

\* C20 case: with days = 5, the issue due in 3 days is listed and the one due
\* in 7 days is not.
C20_Witness ==
    /\ listed.op = "due_soon"
    /\ listed.days = 5
    /\ \E i, j \in IssueIds :
          /\ ~issues[i].is_returned /\ issues[i].due_date = now + 3 * Day
          /\ ~issues[j].is_returned /\ issues[j].due_date = now + 7 * Day
          /\ listed.rows = <<i>>

\* The due-soon notices dispatched so far.
DueSoonNotices == { d \in dispatched : d.list = "due_soon" }

\* Run r completes an iteration of its due-soon loop in this step.
DueSoonStep(r) ==
    /\ sweep[r].pc = "due_soon_loop"
    /\ sweep'[r] # sweep[r]
    /\ sweep'[r].pc # "failed"

PastOverdueLoop(r) == sweep[r].pc \in {"due_soon_loop", "run_tasks", "done"}

\* C13 (SpecSweepSeq): in every sweep run, every issue get_overdue_books
\* returned is dispatched a notice of category "overdue" that carries
\* daysOverdue = floor((now - due) / 1 day), whatever its last_notice_sent
\* and however small daysOverdue is.
C13_OverdueAlwaysDispatched ==
    \A r \in Runs : PastOverdueLoop(r) =>
       \A k \in DOMAIN sweep[r].overdue :
          \E d \in dispatched :
             /\ d.run = sweep[r].id
             /\ d.issue = sweep[r].overdue[k]
             /\ d.list = "overdue"
             /\ d.body = "overdue"
             /\ d.days = FloorDiv(d.at - issues[d.issue].due_date, Day)

\* C13, the part that holds: every issue get_overdue_books returned is
\* dispatched one notice, whatever its last_notice_sent, and the notice is the
\* overdue one with daysOverdue = floor((now - due) / 1 day) for every issue
\* overdue by a day or more.
C13_ForWholeDays ==
    \A r \in Runs : PastOverdueLoop(r) =>
       \A k \in DOMAIN sweep[r].overdue :
          \E d \in dispatched :
             /\ d.run = sweep[r].id
             /\ d.issue = sweep[r].overdue[k]
             /\ d.list = "overdue"
             /\ d.at - issues[d.issue].due_date >= Day =>
                   /\ d.body = "overdue"
                   /\ d.days = FloorDiv(d.at - issues[d.issue].due_date, Day)

\* The issues run r listed.
Listed(r) ==
    Rows(sweep[r].overdue) \cup { sweep[r].due_soon[k].id : k \in DOMAIN sweep[r].due_soon }

\* Run r dealt with issue id: dispatched its notice, or passed it over in the
\* due-soon loop.
Processed(r, id) ==
    \/ \E d \in dispatched : d.run = sweep[r].id /\ d.issue = id
    \/ \E k \in DOMAIN sweep[r].due_soon :
          /\ sweep[r].due_soon[k].id = id
          /\ k < sweep[r].i
          /\ sweep[r].pc # "overdue_loop"

\* C14 (SpecSweepSeq): within one sweep run, a failure while dispatching the
\* notice of one issue does not abort the run: every other overdue and
\* due-soon issue of the run is still processed.
C14_FailureIsPerIssue ==
    \A r \in Runs :
       (sweep[r].pc = "failed" /\ sweep[r].failed_at # 0) =>
          \A id \in Listed(r) \ {sweep[r].failed_at} : Processed(r, id)

\* Run r ends in this step on an exception raised inside it.
RunFails(r) == Active(r) /\ ~Active(r)' /\ sweep'[r].pc = "failed"

\* C15 (SpecSweep): a sweep run never lets an exception out.  No run is ever
\* left by a raised exception; a failure ends its own run only, leaving the
\* other runs, the tables and the scheduler as they were, with the job
\* registered and the scheduler running.
C15_RunNeverRaises ==
    [][ /\ \A r \in Runs : sweep'[r].pc # "raised"
        /\ \A r \in Runs : RunFails(r) =>
              /\ \A q \in Runs \ {r} : sweep'[q] = sweep[q]
              /\ issues' = issues
              /\ books' = books
              /\ scheduler' = scheduler
              /\ scheduler'.running
              /\ scheduler'.jobs = 1 ]_vars

\* C15 case: a scheduled run started after an earlier run ended on an
\* exception.
C15_Witness ==
    \E r, q \in Runs :
       /\ sweep[r].pc = "failed"
       /\ sweep[q].pc = "get_overdue"
       /\ sweep[q].db = "cm"
       /\ sweep[q].id > sweep[r].id

\* C16 (SpecSweep): a due-soon issue gets at most one due-soon notice within
\* any one-day period, also when sweep runs overlap.
C16_OncePerDay ==
    \A d1, d2 \in DueSoonNotices :
       (d1.issue = d2.issue /\ d1 # d2)
          => (d1.at - d2.at >= Day \/ d2.at - d1.at >= Day)

\* C17 (SpecSched): start_scheduler on a running scheduler changes nothing
\* (but the count of the calls made), so that after any number of start calls
\* exactly one sweep job is registered.
C17_StartIdempotent ==
    [][ /\ (scheduler.running /\ scheduler'.starts > scheduler.starts)
              => scheduler' = [scheduler EXCEPT !.starts = @ + 1]
        /\ scheduler'.starts > 0 => scheduler'.jobs = 1 ]_vars

\* C17 case: start_scheduler called a second time, on the running scheduler.
C17_Witness ==
    /\ scheduler.starts >= 2
    /\ scheduler.running
    /\ scheduler.jobs = 1

\* C18 (SpecBooks): no code path other than issue_book and return_book
\* changes a book's available_copies: a step that changes it is the end of a
\* call of one of the two.
C18_OnlyIssueAndReturnWrite ==
    [][ \A b \in DOMAIN books :
          books'[b].available_copies # books[b].available_copies
             => \E p \in Procs : Finishes(p) /\ req[p].op \in {"issue", "return"} ]_vars

\* C21 (SpecSeq): for a book with total_copies = 1.  While its copy is out on
\* an unreturned issue (available_copies = 0), every issue_book call for that
\* book ends in a Conflict (or on a transient failure) and adds no issue.
\* A return_book call for that issue that ends ok leaves it returned and
\* available_copies = 1.  Once the issue is returned,
\* an issue_book call for an existing student is not refused: given a
\* days_to_return it ends ok with a new unreturned issue of the book for the
\* student and available_copies = 0.
C21_SingleCopyScenario ==
    [][ \A p \in Procs :
        /\ (/\ Finishes(p)
            /\ req[p].op = "return"
            /\ result' = "ok"
            /\ Total(issues[req[p].issue_id].book_id) = 1
            /\ Avail(issues[req[p].issue_id].book_id) = 0)
           => /\ issues'[req[p].issue_id].is_returned
              /\ books'[issues[req[p].issue_id].book_id].available_copies = 1
        /\
          (/\ Finishes(p)
           /\ req[p].op = "issue"
           /\ BookExists(req[p].book_id)
           /\ Total(req[p].book_id) = 1
           /\ req[p].student_id \in Students)
          => LET b == req[p].book_id IN
             /\ (Avail(b) = 0 /\ Cardinality(Unreturned(b)) = 1) =>
                   /\ Kind(result') \in {"Conflict", "TransientIO"}
                   /\ issues' = issues
                   /\ books' = books
             /\ (Avail(b) = 1 /\ Unreturned(b) = {}) =>
                   /\ result' \in {"ok", "TransientIO", "Error"}
                   /\ result' = "Error" => pc[p] = "ib_select_existing"
                   /\ result' = "ok" =>
                         /\ Len(issues') = Len(issues) + 1
                         /\ issues'[Len(issues')].book_id = b
                         /\ issues'[Len(issues')].student_id = req[p].student_id
                         /\ ~issues'[Len(issues')].is_returned
                         /\ books'[b].available_copies = 0 ]_vars

\* C21 case: the one copy was issued to a student and returned, and is now
\* out on a new issue to the other student.
C21_Witness ==
    /\ result = "ok"
    /\ Len(issues) = 2
    /\ issues[1].is_returned
    /\ ~issues[2].is_returned
    /\ issues[1].book_id = issues[2].book_id
    /\ issues[1].student_id # issues[2].student_id
    /\ Total(issues[2].book_id) = 1
    /\ Avail(issues[2].book_id) = 0

\* Run r holds the due-soon list it queried.
HasDueSoonList(r) ==
    sweep[r].pc \in {"overdue_loop", "due_soon_loop", "run_tasks", "done"}

\* C22 (SpecConfig): the sweep uses the configured values: the interval of
\* the registered job is settings.SCHEDULER_INTERVAL_HOURS, and the due-soon
\* list of a run is the unreturned issues due within settings.DUE_SOON_DAYS
\* days, for every value of the settings.
C22_UsesConfiguredValues ==
    /\ scheduler.jobs > 0 =>
          scheduler.interval_hours = settings.SCHEDULER_INTERVAL_HOURS
    /\ \A r \in Runs : HasDueSoonList(r) =>
          { sweep[r].due_soon[k].id : k \in DOMAIN sweep[r].due_soon }
             = { i \in IssueIds : /\ ~issues[i].is_returned
                                  /\ now < issues[i].due_date
                                  /\ issues[i].due_date <= now + settings.DUE_SOON_DAYS * Day }

\* C22, the part that holds: under the default settings the job's interval
\* and the window of the due-soon list are the configured ones.
C22_ForDefaults ==
    settings = DefaultSettings => C22_UsesConfiguredValues

\* C22, second input: with the interval left at its default, the due-soon
\* list is still not the one of the configured window.
C22_WindowOnly ==
    settings.SCHEDULER_INTERVAL_HOURS = IntervalHours => C22_UsesConfiguredValues

\* Issue ids whose row differs between the two states of a step.
IssuesChanged == { i \in 1 .. Len(issues) : issues'[i] # issues[i] }

\* Book ids whose row differs between the two states of a step.
BooksChanged == { b \in DOMAIN books : books'[b] # books[b] }

\* A step of a run of the sweep.
SweepStep == \E r \in Runs : sweep'[r] # sweep[r]

\* C23: last_notice_sent of an issue changes only in a step of the sweep's
\* due-soon loop; every step of issue_book and return_book keeps last_notice_sent
\* of every existing issue, issue_book changes no existing issue and adds at most
\* one (for the requested book, with no notice recorded), return_book changes no
\* issue but the one it returns, and each changes no book but that issue's book.
C23_LedgerFrame ==
    [][ /\ Len(issues') >= Len(issues)
        /\ DOMAIN books' = DOMAIN books
        /\ \A i \in 1 .. Len(issues) :
              issues'[i].last_notice_sent # issues[i].last_notice_sent
                 => \E r \in Runs : sweep[r].pc = "due_soon_loop" /\ sweep'[r] # sweep[r]
        /\ \A p \in Procs : pc'[p] # pc[p] =>
              LET q == req[p] IN
              /\ \A i \in 1 .. Len(issues) :
                    issues'[i].last_notice_sent = issues[i].last_notice_sent
              /\ q.op = "none" => issues' = issues /\ books' = books
              /\ q.op = "issue" =>
                    /\ IssuesChanged = {}
                    /\ Len(issues') <= Len(issues) + 1
                    /\ \A i \in Len(issues) + 1 .. Len(issues') :
                          /\ issues'[i].book_id = q.book_id
                          /\ issues'[i].last_notice_sent = None
                    /\ BooksChanged \subseteq {q.book_id}
              /\ q.op = "return" =>
                    /\ Len(issues') = Len(issues)
                    /\ IssuesChanged \subseteq {q.issue_id}
                    /\ \A b \in BooksChanged :
                          /\ q.issue_id \in 1 .. Len(issues)
                          /\ b = issues[q.issue_id].book_id
      ]_vars

\* An issue notified by the sweep has been returned, its notice time kept, and
\* an issue of the other book has been created since.
C23_Witness ==
    \E i, j \in 1 .. Len(issues) :
       /\ issues[i].is_returned
       /\ issues[i].last_notice_sent # None
       /\ issues[j].book_id # issues[i].book_id
       /\ ~issues[j].is_returned
       /\ books[issues[j].book_id].available_copies = 0
       /\ books[issues[i].book_id].available_copies = 1

\* C24: get_all_issues(is_returned, page, limit) returns as total the number of
\* issues matching the filter, whatever page and limit are, and as items the
\* elements at positions (page-1)*limit .. page*limit-1 (counted from 0, as far
\* as they exist) of the matching issues in descending order of issue_date.
C24_PagedListing ==
    listed.op = "all" =>
        LET M   == { i \in IssueIds :
                       listed.is_returned # None => issues[i].is_returned = listed.is_returned[1] }
            lo  == (listed.page - 1) * listed.limit
            hi  == listed.page * listed.limit - 1
        IN /\ listed.total = Cardinality(M)
           /\ \E q \in [0 .. Cardinality(M) - 1 -> M] :
                 /\ \A j, k \in DOMAIN q : j # k => q[j] # q[k]
                 /\ \A j, k \in DOMAIN q :
                       j < k => issues[q[j]].issue_date >= issues[q[k]].issue_date
                 /\ Len(listed.rows) = Cardinality({ k \in DOMAIN q : lo <= k /\ k <= hi })
                 /\ \A k \in 1 .. Len(listed.rows) : listed.rows[k] = q[lo + k - 1]

\* C24 case: of three issues two match is_returned = false; page 2 with limit 1
\* holds the earlier issued of the two and total is 2.
C24_Witness ==
    /\ listed.op = "all"
    /\ listed.is_returned = <<FALSE>>
    /\ listed.page = 2
    /\ listed.limit = 1
    /\ listed.total = 2
    /\ Len(issues) = 3
    /\ Len(listed.rows) = 1
    /\ \E i \in IssueIds : /\ ~issues[i].is_returned
                           /\ issues[i].issue_date > issues[listed.rows[1]].issue_date

\* A run that has ended, by falling off its body or in its except clause.
Ended(r) == sweep[r].pc \in {"done", "failed"}

\* C25: when a run has ended, every due-soon issue whose last_notice_sent the
\* run recorded has had its queued email executed in that run.
C25_RecordedNoticeIsSent ==
    \A r \in Runs : Ended(r) =>
       \A d \in DueSoonNotices : d.run = sweep[r].id =>
          /\ issues[d.issue].last_notice_sent # None
          /\ \E o \in outbox : o.run = d.run /\ o.issue = d.issue

\* C25 for the runs that did not end in the except clause.
C25_WhenRunCompletes ==
    \A r \in Runs : sweep[r].pc = "done" =>
       \A d \in DueSoonNotices : d.run = sweep[r].id =>
          /\ issues[d.issue].last_notice_sent # None
          /\ \E o \in outbox : o.run = d.run /\ o.issue = d.issue

\* C26: no notification is dispatched for an issue that is returned at the
\* moment of the dispatch, a return_book committed between the run's queries
\* and its loops included.
C26_NoDispatchForReturned ==
    [][ \A d \in dispatched' \ dispatched : ~issues[d.issue].is_returned ]_vars

\* C26 for the issues that were unreturned when the run's queries listed them
\* and have not been returned since: the dispatches of a run are for issues
\* its queries returned.
C26_DispatchedWereListed ==
    [][ \A d \in dispatched' \ dispatched :
           \E r \in Runs : /\ sweep[r].id = d.run
                            /\ d.issue \in Listed(r) ]_vars

\* The dispatches of run r for issue id.
DispatchesOf(r, id) == { d \in dispatched : d.run = sweep[r].id /\ d.issue = id }

\* C27: within one run every issue is dispatched at most one notification; the
\* run's overdue list and due-soon list have no issue in common, and an issue
\* whose due_date equals the time of the queries is in neither (no time passes
\* during a run here, so that time is now).
C27_OneDispatchPerRun ==
    \A r \in Runs :
       /\ \A id \in IssueIds : Cardinality(DispatchesOf(r, id)) <= 1
       /\ Rows(sweep[r].overdue)
             \cap { sweep[r].due_soon[k].id : k \in DOMAIN sweep[r].due_soon } = {}
       /\ \A id \in IssueIds : issues[id].due_date = now => id \notin Listed(r)

\* C27 case: a run ended with one issue in each list, each dispatched once.
C27_Witness ==
    \E r \in Runs :
       /\ sweep[r].pc = "done"
       /\ Len(sweep[r].overdue) = 1
       /\ Len(sweep[r].due_soon) = 1
       /\ \A id \in Listed(r) : Cardinality(DispatchesOf(r, id)) = 1
       /\ Cardinality(Listed(r)) = 2

\* C30: a step of a sweep run leaves every book and the number of issues as
\* they are and changes no attribute of an issue but last_notice_sent, and that
\* only for the issue whose due-soon notice the step dispatches;
\* overdue_notices_sent is 0 on every issue before and after every step.
C30_SweepFrame ==
    [][ /\ \A i \in 1 .. Len(issues) : issues[i].overdue_notices_sent = 0
        /\ \A i \in 1 .. Len(issues') : issues'[i].overdue_notices_sent = 0
        /\ SweepStep =>
              /\ books' = books
              /\ Len(issues') = Len(issues)
              /\ \A i \in 1 .. Len(issues) :
                    /\ issues'[i] = [issues[i] EXCEPT !.last_notice_sent =
                                                        issues'[i].last_notice_sent]
                    /\ issues'[i].last_notice_sent # issues[i].last_notice_sent =>
                          \E d \in dispatched' \ dispatched :
                             d.issue = i /\ d.list = "due_soon"
      ]_vars

\* C30 case: a run ended having dispatched an overdue notice, whose issue has no
\* notice time, and a due-soon notice, whose issue has one.
C30_Witness ==
    \E r \in Runs :
       /\ sweep[r].pc = "done"
       /\ \E d, e \in dispatched :
             /\ d.run = sweep[r].id /\ e.run = sweep[r].id
             /\ d.list = "overdue" /\ issues[d.issue].last_notice_sent = None
             /\ e.list = "due_soon" /\ issues[e.issue].last_notice_sent # None

\* available_copies = total_copies - unreturned issues and
\* 0 <= available_copies <= total_copies, for book b.
CopiesAccountedFor(b) ==
    /\ Avail(b) = Total(b) - Cardinality(Unreturned(b))
    /\ 0 <= Avail(b)
    /\ Avail(b) <= Total(b)

\* C28: update_book either refuses and leaves the book as it is, or goes on
\* with the book's own values (no total_copies given), or with a total that
\* is not below the issued copies (total_copies - available_copies) and an
\* available_copies of that total less the issued copies; its commit leaves the number of issued copies of the book as it was
\* and, where available_copies = total_copies - unreturned issues and
\* 0 <= available_copies <= total_copies held, they still hold.
C28_UpdateKeepsIssued ==
    [][ \A p \in Procs, b \in ReqBookIds :
          (req[p].op = "update" /\ req[p].book_id = b /\ pc'[p] # pc[p]) =>
          /\ ~BookExists(b) => books' = books /\ pc'[p] = "idle"
          /\ (BookExists(b) /\ pc[p] = "ub_select_book") =>
                /\ books' = books
                /\ pc'[p] = "wb_commit" =>
                      \/ /\ pending'[p].total_copies = Total(b)
                         /\ pending'[p].available_copies = Avail(b)
                      \/ /\ pending'[p].total_copies >= Total(b) - Avail(b)
                         /\ pending'[p].available_copies =
                               pending'[p].total_copies - (Total(b) - Avail(b))
          /\ pc[p] = "wb_commit" =>
                /\ result' # "ok" => books' = books
                /\ result' = "ok" =>
                      /\ books'[b].total_copies = pending[p].total_copies
                      /\ books'[b].total_copies - books'[b].available_copies
                            = Total(b) - Avail(b)
                      /\ CopiesAccountedFor(b) => CopiesAccountedFor(b)'
      ]_vars

\* C28 case: update_book has raised the total of a book with a copy out and
\* the copies are accounted for.
C28_Raised ==
    /\ result = "ok"
    /\ \E b \in DOMAIN books :
          /\ Total(b) = MaxCopies + 1
          /\ Unreturned(b) # {}
          /\ CopiesAccountedFor(b)

\* C29: a step of delete_book on a book with available_copies < total_copies
\* ends the call with the 400 refusal (or an I/O failure) and leaves the books
\* as they are; and after every step of issue_book, return_book and delete_book
\* calls every unreturned issue refers to a book that exists.
C29_NoDeleteWhileIssued ==
    [][ /\ \A i \in 1 .. Len(issues') :
              ~issues'[i].is_returned => issues'[i].book_id \in DOMAIN books'
        /\ \A p \in Procs, b \in DOMAIN books :
              (/\ req[p].op = "delete" /\ req[p].book_id = b
               /\ pc'[p] # pc[p]
               /\ Avail(b) < Total(b)) =>
                 /\ books' = books
                 /\ pc'[p] = "idle"
                 /\ result' \in {"ActiveIssues", "TransientIO"}
      ]_vars

\* C29 case: delete_book has been refused for a book with an unreturned issue,
\* and the book is in place.
C29_Witness ==
    /\ result = "ActiveIssues"
    /\ \E i \in IssueIds : /\ ~issues[i].is_returned
                           /\ issues[i].book_id \in DOMAIN books
                           /\ Avail(issues[i].book_id) < Total(issues[i].book_id)

\* delete_book has removed a book: one that has no issues row.
C29_Deleted ==
    /\ result = "ok"
    /\ DOMAIN books = {}
====
